---- MODULE Spec2Model ----
(***************************************************************************)
(* Model of src/main.py: the frame loop of the YOLO detection system.      *)
(* One ProcessFrame step is one iteration of `while True` (lines 203-374): *)
(* ring-buffer push, per-detection classification and logging, the alert   *)
(* gate, start_recording, the write of the current frame, stop_recording   *)
(* and the start of the e-mail thread.  The detector (cv2.dnn) and the     *)
(* clock (time.time) are inputs.  Time is counted in whole seconds.        *)
(***************************************************************************)
EXTENDS Integers, Sequences, FiniteSets, TLC

VARIABLES
    args,                         \* parsed command line (main.py:18-35)
    pc,                           \* "loop" | "cleanup" | "done"
    frame_count,                  \* main.py:194
    frame_buffer,                 \* main.py:71
    last_alert_time,              \* main.py:67
    recording,                    \* main.py:69
    video_writer,                 \* main.py:70, index into writers or None
    recording_start_time,         \* main.py:197
    current_video_path,           \* main.py:198
    alert_triggered_objects,      \* main.py:199
    current_frame_alert_objects,  \* main.py:259
    current_time,                 \* main.py:195 / 306, last clock reading
    total_detections,             \* main.py:73
    log,                          \* rows of the detection log file
    log_file,                     \* main.py:76, the date in the file's name
    log_rows_at_gate,             \* rows in the log file when line 306 last ran
    writers,                      \* every cv2.VideoWriter created so far, with
                                  \* the session it belongs to
    threads,                      \* every e-mail thread started so far
    zones,                        \* main.py:58, ROI_ZONES as the loop reads it
    boxes,                        \* main.py:238, boxes of the last frame
    indexes,                      \* main.py:255, indices NMS kept of them
    roi_detections,               \* main.py:258, in-zone counts of the last frame
    csv_file                      \* the log file as init_csv_log left it; the
                                  \* file on disk is its rows followed by log

vars == <<args, pc, frame_count, frame_buffer, last_alert_time, recording,
          video_writer, recording_start_time, current_video_path,
          alert_triggered_objects, current_frame_alert_objects, current_time,
          total_detections, log, log_file, log_rows_at_gate, writers,
          threads, zones, boxes, indexes, roi_detections, csv_file>>

----------------------------------------------------------------------------
(* Bounds of the model *)

MaxFrames == 3
\* scaled-down deque(maxlen=150)
BufferCapacity == 2

\* scaled-down length of a calendar day (seconds)
DayLength == 3

\* clock reading at startup, and its advance between two frames (seconds)
StartTimes == {0, 1}
ClockSteps == {0, 1}
\* --cooldown and --record-duration
CooldownValues == {0, 1}
RecordDurationValues == {0, 2}

----------------------------------------------------------------------------
(* Configuration *)

None == -1

alert_objects == {"person", "car", "truck"}

ROI_ZONES ==
    << [name |-> "Zone 1", coords |-> <<400, 100, 250, 350>>] >>

Labels == {"person", "car", "dog", "truck"}

ArgsValues ==
    [roi : BOOLEAN, email : BOOLEAN,
     cooldown : CooldownValues, record_duration : RecordDurationValues]

(* Detector output after the confidence filter: boxes are [x, y, w, h] in   *)
(* pixels, confidence in thousandths; indexes is what NMSBoxes keeps.       *)
PersonInZone == [label |-> "person", box |-> <<480, 150, 40, 100>>, confidence |-> 914]
PersonDuplicate == [label |-> "person", box |-> <<482, 151, 40, 100>>, confidence |-> 803]
CarInZone == [label |-> "car", box |-> <<500, 300, 100, 60>>, confidence |-> 876]
DogOutside == [label |-> "dog", box |-> <<10, 10, 20, 20>>, confidence |-> 655]

\* Inputs of the zone classification on its own: zone lists other than the
\* shipped one, and single boxes whose centres sit on and around the edges
ZoneOverlap == [name |-> "Zone 2", coords |-> <<600, 400, 200, 200>>]

ZoneConfigs ==
    { <<>>, ROI_ZONES, ROI_ZONES \o <<ZoneOverlap>>, <<ZoneOverlap>> \o ROI_ZONES }

ProbeXs == {400, 401, 625, 649, 650, 800}
ProbeYs == {100, 101, 425, 449, 450, 600}

\* a box of odd width and height whose centre x + w // 2, y + h // 2 is (cx, cy)
ProbeBox(cx, cy) ==
    [label |-> "person", box |-> <<cx - 20, cy - 50, 41, 101>>, confidence |-> 900]

\* int(detection[2] * width) = int(detection[3] * height) = 0: a box of no area
EmptyBox == [label |-> "truck", box |-> <<500, 200, 0, 0>>, confidence |-> 700]

ProbeOutputs ==
    { [boxes |-> <<ProbeBox(cx, cy)>>, indexes |-> {1}] :
          cx \in ProbeXs, cy \in ProbeYs }
    \cup { [boxes |-> <<EmptyBox>>, indexes |-> {1}] }

DetectorOutputs ==
    { [boxes |-> <<>>, indexes |-> {}],
      [boxes |-> <<PersonInZone>>, indexes |-> {1}],
      [boxes |-> <<CarInZone, PersonInZone>>, indexes |-> {1, 2}],
      [boxes |-> <<DogOutside>>, indexes |-> {1}],
      [boxes |-> <<PersonInZone, PersonDuplicate, DogOutside>>, indexes |-> {1, 3}] }

Keys == {"none", "s", "q"}

----------------------------------------------------------------------------
(* Frames *)

\* frame.copy() pushed into the ring buffer before anything is drawn
RawCopy(n) == [n |-> n, drawn |-> FALSE]
\* the loop's `frame` after the ROI overlay and the boxes are drawn
DrawnFrame(n) == [n |-> n, drawn |-> TRUE]

\* an append that never evicts
PushFrame_NoEvict(buffer, f) == Append(buffer, f)

\* an append that, at capacity, overwrites the newest frame
PushFrame_EvictNewest(buffer, f) ==
    IF Len(buffer) < BufferCapacity
    THEN Append(buffer, f)
    ELSE Append(SubSeq(buffer, 1, Len(buffer) - 1), f)

\* deque(maxlen=N).append
PushFrame(buffer, f) ==
    IF Len(buffer) < BufferCapacity
    THEN Append(buffer, f)
    ELSE Append(Tail(buffer), f)

\* `for buffered_frame in frame_buffer` : oldest first
Snapshot(buffer) == buffer

\* a snapshot that drains the buffer
AfterSnapshot_Clear(buffer) == <<>>

\* the deque once the for loop of start_recording has run over it
AfterSnapshot(buffer) == buffer

----------------------------------------------------------------------------
(* Per-detection classification, main.py:261-303 *)

lower(label) ==
    CASE label = "Person" -> "person"
      [] label = "Car" -> "car"
      [] OTHER -> label

\* a membership test that takes the edges in
InZone_Inclusive(zone, cx, cy) ==
    LET rx == zone.coords[1]
        ry == zone.coords[2]
        rw == zone.coords[3]
        rh == zone.coords[4]
    IN  rx <= cx /\ cx <= rx + rw /\ ry <= cy /\ cy <= ry + rh

InZone(zone, cx, cy) ==
    LET rx == zone.coords[1]
        ry == zone.coords[2]
        rw == zone.coords[3]
        rh == zone.coords[4]
    IN  rx < cx /\ cx < rx + rw /\ ry < cy /\ cy < ry + rh

\* a zone loop without its break: the last zone containing the centre
FirstZone_NoBreak(k, cx, cy) ==
    LET hits == { j \in k..Len(zones) : InZone(zones[j], cx, cy) }
    IN  IF hits = {} THEN 0
        ELSE CHOOSE j \in hits : \A i \in hits : i <= j

\* index of the first zone containing the centre, 0 when there is none
RECURSIVE FirstZone(_, _, _)
FirstZone(k, cx, cy) ==
    IF k > Len(zones) THEN 0
    ELSE IF InZone(zones[k], cx, cy) THEN k
    ELSE FirstZone(k + 1, cx, cy)

\* a zone test that runs whatever --roi says
ChecksZones_Always(roi) == TRUE

\* `if args.roi:` around the zone loop
ChecksZones(roi) == roi

Classify(det, roi) ==
    LET x == det.box[1]
        y == det.box[2]
        w == det.box[3]
        h == det.box[4]
        center_x == x + (w \div 2)
        center_y == y + (h \div 2)
        z == IF ChecksZones(roi) THEN FirstZone(1, center_x, center_y) ELSE 0
    IN  [label |-> det.label,
         confidence |-> det.confidence,
         in_roi |-> z # 0,
         zone_name |-> IF z # 0 THEN zones[z].name ELSE "Outside",
         alert |-> z # 0 /\ lower(det.label) \in alert_objects]

Selected(i, kept) == i \in kept

\* the detections the loop body at 261-303 runs for, in order
RECURSIVE Surviving(_, _, _)
Surviving(found, kept, i) ==
    IF i > Len(found) THEN <<>>
    ELSE IF Selected(i, kept)
         THEN <<found[i]>> \o Surviving(found, kept, i + 1)
         ELSE Surviving(found, kept, i + 1)

\* f"{confidence:.2f}" of a confidence given in thousandths, as hundredths
Format2(c) == (c + 5) \div 10

\* strftime('%Y%m%d') of a clock reading: its calendar day
Date(t) == t \div DayLength

LogRow(c, alert_triggered, now) ==
    [timestamp |-> now, label |-> c.label, confidence |-> Format2(c.confidence),
     in_roi |-> c.in_roi, zone |-> c.zone_name,
     alert_triggered |-> alert_triggered]

\* The log file of the day before this run touches it: absent, or left by an
\* earlier run of the same day with its header and the rows that run wrote
NoFile == [exists |-> FALSE, headers |-> 0, rows |-> <<>>]
EarlierRow ==
    [timestamp |-> 0, label |-> "dog", confidence |-> 66, in_roi |-> FALSE,
     zone |-> "Outside", alert_triggered |-> FALSE]
LogFilesAtStart ==
    { NoFile,
      [exists |-> TRUE, headers |-> 1, rows |-> <<>>],
      [exists |-> TRUE, headers |-> 1, rows |-> <<EarlierRow>>],
      [exists |-> TRUE, headers |-> 1, rows |-> <<EarlierRow, EarlierRow>>] }

\* a start that opens the file for writing whether or not it exists
init_csv_log_Truncate(file) == [exists |-> TRUE, headers |-> 1, rows |-> <<>>]

\* open(log_file, 'w') and the header row, only when the file is not there
init_csv_log(file) ==
    IF ~file.exists
    THEN [exists |-> TRUE, headers |-> 1, rows |-> <<>>]
    ELSE file

\* a log that skips the detections that feed the alert gate
log_detection_SkipAlert(rows, c, alert_triggered, now) ==
    IF c.alert THEN rows ELSE Append(rows, LogRow(c, alert_triggered, now))

\* appends to log_file, the one file named at import
log_detection(rows, c, alert_triggered, now) ==
    Append(rows, LogRow(c, alert_triggered, now))

\* a flag that marks the rows of alert-eligible detections
LoggedAlertFlag_Eligible(c) == c.alert

\* the last argument of the one call of log_detection: the literal False
LoggedAlertFlag(c) == FALSE

\* the Alert_Triggered cell as csv.writer writes it and pandas.read_csv
\* reads it back
CsvBool(b) == IF b THEN "True" ELSE "False"
ReadBool(s) == s = "True"

\* stats['alert_count'] = combined_df['Alert_Triggered'].sum()
RECURSIVE alert_count(_)
alert_count(rows) ==
    IF rows = <<>> THEN 0
    ELSE (IF ReadBool(CsvBool(Head(rows).alert_triggered)) THEN 1 ELSE 0)
         + alert_count(Tail(rows))

RECURSIVE LogAll(_, _, _, _)
LogAll(rows, dets, roi, now) ==
    IF dets = <<>> THEN rows
    ELSE LogAll(log_detection(rows, Classify(Head(dets), roi),
                              LoggedAlertFlag(Classify(Head(dets), roi)), now),
                Tail(dets), roi, now)

RECURSIVE CountAll(_, _)
CountAll(totals, dets) ==
    IF dets = <<>> THEN totals
    ELSE CountAll([totals EXCEPT ![Head(dets).label] = @ + 1], Tail(dets))

\* roi_detections[label] += 1 for each detection in a zone
RECURSIVE RoiCountAll(_, _, _)
RoiCountAll(counts, dets, roi) ==
    IF dets = <<>> THEN counts
    ELSE RoiCountAll(IF Classify(Head(dets), roi).in_roi
                     THEN [counts EXCEPT ![Head(dets).label] = @ + 1]
                     ELSE counts,
                     Tail(dets), roi)

\* the set carried over from the previous frame
FreshAlertObjects_Carry(previous) == previous

\* current_frame_alert_objects = set() at the top of each frame
FreshAlertObjects(previous) == {}

AlertObjects(start, dets, roi) ==
    start \cup { dets[i].label : i \in { j \in 1..Len(dets) : Classify(dets[j], roi).alert } }

----------------------------------------------------------------------------
(* Alert gate and recording, main.py:139-159, 305-334 *)

\* a cleanup that leaves the writer alone
CleanupStops_Never(rec) == FALSE

\* `if recording: stop_recording()` after the loop
CleanupStops(rec) == rec

\* the gate reached before the frame's detections are logged
RowsAtGate_Early(before, after) == Len(before)

\* the log as the alert logic at 305-315 finds it: the loop at 261-303 has
\* run to its end (before: the log at the top of the frame, after: with the
\* frame's rows)
RowsAtGate(before, after) == Len(after)

\* a gate with no cooldown at all
CooldownElapsed_Always(t, last, cooldown) == TRUE

\* the gate with the cooldown boundary included
CooldownElapsed_Inclusive(t, last, cooldown) == (t - last) >= cooldown

\* (current_time - last_alert_time) > alert_cooldown
CooldownElapsed(t, last, cooldown) == (t - last) > cooldown

\* the gate without the `if not recording` check
MayStart_Always(rec) == TRUE

\* if not recording
MayStart(rec) == ~rec

\* an acceptance that leaves last_alert_time as it was
AcceptedAlertTime_Stale(t, last) == last

\* last_alert_time = current_time
AcceptedAlertTime(t, last) == t

\* clips_dir/alert_<%Y%m%d_%H%M%S>.avi : the file name is its second of creation
VideoPath(t) == t

\* start_recording plus lines 313-314: the writer holds the buffered frames;
\* started_at, trigger_frame and labels record the session it was opened for
\* opened is cv2.VideoWriter's isOpened(): when the file cannot be created the
\* constructor still returns a writer, and every write to it is dropped
NewWriter(path, buffer, t, n, objects, opened) ==
    [path |-> path, frames |-> IF opened THEN Snapshot(buffer) ELSE <<>>,
     opened |-> opened, state |-> "open",
     started_at |-> t, closed_at |-> None, trigger_frame |-> n,
     labels |-> objects]

\* video_writer.write(frame)
WriteFrame(w, f) == IF w.opened THEN [w EXCEPT !.frames = Append(@, f)] ELSE w

\* a stop that leaves the writer as it is
Release_Noop(w, how, t) == w

\* video_writer.release(): how is "expired" (loop) or "forced" (cleanup)
Release(w, how, t) == [w EXCEPT !.state = how, !.closed_at = t]

\* a session kept open at the boundary instant
Expired_Strict(elapsed, record_duration) == elapsed > record_duration

Expired(elapsed, record_duration) == elapsed >= record_duration

\* a dispatch that does not read the e-mail switch
Dispatches_Unconditional(enabled, path) == TRUE

\* `if EMAIL_CONFIG["enabled"] and current_video_path:`
Dispatches(enabled, path) == enabled /\ path # None

\* the thread handed the set itself, which line 334 then clears
ThreadArgs_Alias(path, objects) ==
    [video_path |-> path, detected_objects |-> {},
     zone_name |-> "ROI Zone", state |-> "running", tries |-> 0,
     checked |-> FALSE]

\* args=(current_video_path, list(alert_triggered_objects), zone_detected)
ThreadArgs(path, objects) ==
    [video_path |-> path, detected_objects |-> objects,
     zone_name |-> "ROI Zone", state |-> "running", tries |-> 0,
     checked |-> FALSE]

\* a loop that joins every thread it started
LoopWaitsFor_Join(ths) == 1..Len(ths)

\* the threads the frame loop waits for: Thread(..., daemon=True).start()
\* returns at once and nothing is ever joined
LoopWaitsFor(ths) == {}

\* where the try body of send_email_alert ends: "sent", or the step that raised
SendOutcomes == {"sent", "build", "attach", "connect", "login", "send"}

\* os.path.exists(video_path) at line 119 is reached unless building the
\* message (98-116) raised
PathChecked(outcome) == outcome # "build"

\* a send that goes round again after a failure
AfterSend_Retry(th, outcome) ==
    IF outcome = "sent" \/ th.tries >= 2
    THEN [th EXCEPT !.state = IF outcome = "sent" THEN "sent" ELSE "failed",
                    !.tries = @ + 1, !.checked = PathChecked(outcome)]
    ELSE [th EXCEPT !.tries = @ + 1, !.checked = PathChecked(outcome)]

\* one pass through try/except: the exception is printed and dropped
AfterSend(th, outcome) ==
    [th EXCEPT !.state = IF outcome = "sent" THEN "sent" ELSE "failed",
               !.tries = @ + 1, !.checked = PathChecked(outcome)]

----------------------------------------------------------------------------

InitGlobals ==
    /\ args \in ArgsValues
    /\ frame_count = 0
    /\ frame_buffer = <<>>
    /\ last_alert_time = 0
    /\ recording = FALSE
    /\ video_writer = None
    /\ recording_start_time = None
    /\ current_video_path = None
    /\ alert_triggered_objects = {}
    /\ current_frame_alert_objects = {}
    /\ current_time \in StartTimes
    /\ log_file = Date(current_time)
    /\ log_rows_at_gate = 0
    /\ total_detections = [l \in Labels |-> 0]
    /\ log = <<>>
    /\ writers = <<>>
    /\ threads = <<>>
    /\ boxes = <<>>
    /\ indexes = {}
    /\ roi_detections = [l \in Labels |-> 0]

\* the state in which the loop is entered, the log file created by this run
InitLoop ==
    /\ InitGlobals
    /\ pc = "loop"
    /\ csv_file = init_csv_log(NoFile)

Init == InitLoop /\ zones = ROI_ZONES

(* One iteration of the main loop with ret = True. *)
ProcessFrame(out, t, key, opens) ==
    LET n == frame_count + 1
        buffer1 == PushFrame(frame_buffer, RawCopy(n))
        frame == DrawnFrame(n)
        dets == Surviving(out.boxes, out.indexes, 1)
        alerts == AlertObjects(FreshAlertObjects(current_frame_alert_objects),
                               dets, args.roi)
        log1 == LogAll(log, dets, args.roi, t)
        \* alert logic, 305-315
        accept == /\ alerts # {}
                  /\ args.roi
                  /\ CooldownElapsed(t, last_alert_time, args.cooldown)
                  /\ MayStart(recording)
        path1 == IF accept THEN VideoPath(t) ELSE current_video_path
        writers1 == IF accept
                    THEN Append(writers,
                                NewWriter(path1, buffer1, t, n, alerts, opens))
                    ELSE writers
        writer1 == IF accept THEN Len(writers1) ELSE video_writer
        recording1 == IF accept THEN TRUE ELSE recording
        start1 == IF accept THEN t ELSE recording_start_time
        objects1 == IF accept THEN alerts ELSE alert_triggered_objects
        last1 == IF accept THEN AcceptedAlertTime(t, last_alert_time)
                 ELSE last_alert_time
        \* ongoing recording, 317-334
        writers2 == IF recording1
                    THEN [writers1 EXCEPT ![writer1] = WriteFrame(@, frame)]
                    ELSE writers1
        stop == recording1 /\ Expired(t - start1, args.record_duration)
        writers3 == IF stop
                    THEN [writers2 EXCEPT ![writer1] = Release(@, "expired", t)]
                    ELSE writers2
        dispatch == stop /\ Dispatches(args.email, path1)
    IN  /\ pc = "loop"
        /\ frame_count < MaxFrames
        /\ \A i \in LoopWaitsFor(threads) : threads[i].state # "running"
        /\ frame_count' = n
        /\ frame_buffer' = IF accept THEN AfterSnapshot(buffer1) ELSE buffer1
        /\ current_frame_alert_objects' = alerts
        /\ total_detections' = CountAll(total_detections, dets)
        /\ log' = log1
        /\ log_rows_at_gate' = RowsAtGate(log, log1)
        /\ current_time' = t
        /\ last_alert_time' = last1
        /\ recording_start_time' = start1
        /\ current_video_path' = path1
        /\ video_writer' = writer1
        /\ writers' = writers3
        /\ recording' = IF stop THEN FALSE ELSE recording1
        /\ threads' = IF dispatch
                      THEN Append(threads, ThreadArgs(path1, objects1))
                      ELSE threads
        /\ alert_triggered_objects' = IF stop THEN {} ELSE objects1
        /\ pc' = IF key = "q" THEN "cleanup" ELSE "loop"
        /\ boxes' = out.boxes
        /\ indexes' = out.indexes
        /\ roi_detections' = RoiCountAll([l \in Labels |-> 0], dets, args.roi)
        /\ UNCHANGED <<args, log_file, zones, csv_file>>

(* cap.read() returns ret = False: the loop breaks. *)
StreamEnd ==
    /\ pc = "loop"
    /\ pc' = "cleanup"
    /\ UNCHANGED <<args, frame_count, frame_buffer, last_alert_time, recording,
                   video_writer, recording_start_time, current_video_path,
                   alert_triggered_objects, current_frame_alert_objects,
                   current_time, total_detections, log, log_file,
                   log_rows_at_gate, writers, threads, zones, boxes, indexes,
                   roi_detections, csv_file>>

(* Cleanup after the loop: `if recording: stop_recording()`. *)
Cleanup ==
    /\ pc = "cleanup"
    /\ pc' = "done"
    /\ IF CleanupStops(recording)
       THEN /\ writers' = [writers EXCEPT
                            ![video_writer] = Release(@, "forced", current_time)]
            /\ recording' = FALSE
       ELSE UNCHANGED <<writers, recording>>
    /\ UNCHANGED <<args, frame_count, frame_buffer, last_alert_time,
                   video_writer, recording_start_time, current_video_path,
                   alert_triggered_objects, current_frame_alert_objects,
                   current_time, total_detections, log, log_file,
                   log_rows_at_gate, threads, zones, boxes, indexes,
                   roi_detections, csv_file>>

(* The body of one e-mail thread: one attempt, the failure is swallowed. *)
send_email_alert(i, outcome) ==
    /\ i \in 1..Len(threads)
    /\ threads[i].state = "running"
    /\ threads' = [threads EXCEPT ![i] = AfterSend(@, outcome)]
    /\ UNCHANGED <<args, pc, frame_count, frame_buffer, last_alert_time,
                   recording, video_writer, recording_start_time,
                   current_video_path, alert_triggered_objects,
                   current_frame_alert_objects, current_time, total_detections,
                   log, log_file, log_rows_at_gate, writers, zones, boxes,
                   indexes, roi_detections, csv_file>>

Next ==
    \/ \E out \in DetectorOutputs, step \in ClockSteps, key \in Keys,
          opens \in BOOLEAN :
          ProcessFrame(out, current_time + step, key, opens)
    \/ StreamEnd
    \/ Cleanup
    \/ \E i \in 1..Len(threads), outcome \in SendOutcomes :
          send_email_alert(i, outcome)

Spec == Init /\ [][Next]_vars

(* The log file across a start: the process is started over each state the
   day's file can be in, runs the startup checks of lines 185-190 and then
   the loop. The e-mail switch and the recording duration are not read by the
   logging and are held fixed. *)
InitLog ==
    /\ InitGlobals
    /\ pc = "start"
    /\ zones = ROI_ZONES
    /\ csv_file \in LogFilesAtStart
    /\ ~args.email
    /\ args.record_duration = 2

(* `if not cap.isOpened(): exit()`, then init_csv_log(). *)
Startup(cap_opened) ==
    /\ pc = "start"
    /\ IF cap_opened
       THEN /\ csv_file' = init_csv_log(csv_file)
            /\ pc' = "loop"
       ELSE /\ csv_file' = csv_file
            /\ pc' = "done"
    /\ UNCHANGED <<args, frame_count, frame_buffer, last_alert_time, recording,
                   video_writer, recording_start_time, current_video_path,
                   alert_triggered_objects, current_frame_alert_objects,
                   current_time, total_detections, log, log_file,
                   log_rows_at_gate, writers, threads, zones, boxes, indexes,
                   roi_detections>>

LogFrame ==
    \E out \in DetectorOutputs, step \in ClockSteps :
        ProcessFrame(out, current_time + step, "none", TRUE)

NextLog ==
    \/ \E cap_opened \in BOOLEAN : Startup(cap_opened)
    \/ LogFrame

SpecLog == InitLog /\ [][NextLog]_vars

(* The main thread on its own, with zone monitoring on and no e-mail threads.
   It is never blocked: the while loop goes round as long as cap.read()
   returns frames, breaks when it does not or on the quit key, and the
   cleanup follows the loop; so a step of it that stays possible is taken. *)
InitFair == Init /\ args.roi /\ ~args.email

MainThread ==
    \/ \E out \in DetectorOutputs, step \in ClockSteps, key \in Keys,
          opens \in BOOLEAN :
          ProcessFrame(out, current_time + step, key, opens)
    \/ StreamEnd
    \/ Cleanup

SpecFair == InitFair /\ [][MainThread]_vars /\ WF_vars(MainThread)

(* The zone classification of lines 261-303 on its own: the loop is run on
   one probe box per frame, under each zone list. The e-mail switch and the
   recording duration are not read by the classification and are held fixed. *)
InitZone ==
    /\ InitLoop
    /\ zones \in ZoneConfigs
    /\ ~args.email
    /\ args.record_duration = 2

ProbeFrame ==
    \E out \in ProbeOutputs : ProcessFrame(out, current_time, "none", TRUE)

NextZone == ProbeFrame

SpecZone == InitZone /\ [][NextZone]_vars

----------------------------------------------------------------------------
(* Properties *)

WriterIds == 1..Len(writers)

\* a step that is one iteration of the main loop
FrameStep == frame_count' = frame_count + 1

\* a step in which start_recording ran
AcceptStep == Len(writers') = Len(writers) + 1

\* C1: any two accepted triggers have acceptance times at least
\* cooldown_duration apart, measured from the acceptance of the earlier one.
CooldownEnforced ==
    \A i, j \in WriterIds :
        i < j => writers[j].started_at - writers[i].started_at >= args.cooldown

\* two acceptances under a positive cooldown
CooldownEnforced_Witness ==
    /\ args.cooldown > 0
    /\ Len(writers) >= 2

\* C2 (as amended): with no session active, a frame with a non-empty
\* alert-eligible in-zone set is accepted iff t - last_alert_time is strictly
\* greater than cooldown_duration.
GateStrict ==
    [][ (FrameStep /\ ~recording /\ current_frame_alert_objects' # {})
          => (AcceptStep <=> current_time' - last_alert_time > args.cooldown) ]_vars

\* C2 (as claimed): once a trigger has been accepted and with no session
\* active, an eligible frame is accepted iff t - last_alert_time >=
\* cooldown_duration; a trigger at exactly last_alert_time + cooldown_duration
\* is accepted.
GateInclusive ==
    [][ (FrameStep /\ writers # <<>> /\ ~recording
           /\ current_frame_alert_objects' # {})
          => (AcceptStep <=> current_time' - last_alert_time >= args.cooldown) ]_vars

\* an eligible frame arriving exactly cooldown_duration after an acceptance,
\* with no session active, was dropped
GateStrict_Witness ==
    /\ args.cooldown > 0
    /\ args.record_duration = 0
    /\ Len(writers) = 1
    /\ frame_count > writers[1].trigger_frame
    /\ current_frame_alert_objects # {}
    /\ current_time = last_alert_time + args.cooldown

\* C3 (as claimed): the first frame with a non-empty alert-eligible in-zone
\* set is accepted whatever the clock reads, so no state has an eligible
\* current frame and no acceptance so far.
FirstTriggerAccepted ==
    ~(frame_count > 0 /\ current_frame_alert_objects # {} /\ writers = <<>>)

\* C4: at most one recording session is ACTIVE (at most one writer is open),
\* also when cooldown_duration < recording_duration.
AtMostOneActive ==
    Cardinality({ i \in WriterIds : writers[i].state = "open" }) <= 1

\* a trigger that passed the cooldown gate while a session was active
AtMostOneActive_Witness ==
    /\ args.cooldown < args.record_duration
    /\ recording
    /\ frame_count > writers[video_writer].trigger_frame
    /\ current_frame_alert_objects # {}
    /\ current_time - last_alert_time > args.cooldown

Min(a, b) == IF a < b THEN a ELSE b

\* number of buffered frames a clip opened on frame n starts with
PreEventCount(w) == Min(BufferCapacity, w.trigger_frame)

\* C5: the first N frames of every clip are the ring buffer's contents at the
\* instant of the trigger, oldest first: the raw copies of the last N frames
\* seen, N = min(buffer_capacity, frames_seen_so_far).
PreEventComplete ==
    \A i \in WriterIds :
        LET w == writers[i]
            N == PreEventCount(w)
        IN  w.opened =>
              /\ Len(w.frames) >= N
              /\ \A k \in 1..N : w.frames[k] = RawCopy(w.trigger_frame - N + k)

\* a clip opened after the buffer had evicted a frame
PreEventComplete_Witness ==
    \E i \in WriterIds :
        writers[i].opened /\ writers[i].trigger_frame > BufferCapacity

RECURSIVE SumOver(_, _)
SumOver(f, S) ==
    IF S = {} THEN 0
    ELSE LET x == CHOOSE y \in S : TRUE IN f[x] + SumOver(f, S \ {x})

\* C6: the log holds exactly one row per surviving detection, whatever the
\* alert outcome of its frame: after D detections it holds D rows.
LogComplete == Len(log) = SumOver(total_detections, Labels)

\* eligible detections logged on a frame dropped by the cooldown while a
\* session is being recorded
LogComplete_Witness ==
    /\ recording
    /\ frame_count > writers[video_writer].trigger_frame
    /\ current_frame_alert_objects # {}
    /\ current_time - last_alert_time <= args.cooldown
    /\ Len(log) >= 3

\* the alert-eligible in-zone labels among the rows a step appends
StepAlertLabels ==
    { log'[k].label : k \in { j \in (Len(log) + 1)..Len(log') :
          log'[j].in_roi /\ lower(log'[j].label) \in alert_objects } }

\* C7: a trigger is accepted only on a frame whose own alert-eligible in-zone
\* set is non-empty, and the session captures that frame's labels alone:
\* nothing dropped on an earlier frame is queued or merged.
NoDeferredTrigger ==
    [][ AcceptStep =>
          /\ StepAlertLabels # {}
          /\ writers'[Len(writers')].labels = StepAlertLabels ]_vars

EligibleRows == { k \in 1..Len(log) : log[k].in_roi /\ lower(log[k].label) \in alert_objects }

\* frame 1 accepted, frame 2 eligible and dropped by the cooldown, frame 3 not
\* eligible with the cooldown over and no session active: nothing starts
NoDeferredTrigger_Witness ==
    /\ args.record_duration = 0
    /\ Len(writers) = 1
    /\ writers[1].trigger_frame = 1
    /\ frame_count = 3
    /\ Cardinality(EligibleRows) >= 3
    /\ current_frame_alert_objects = {}
    /\ current_time - last_alert_time > args.cooldown

\* C8: after any frame a session is never still ACTIVE with elapsed >=
\* target_duration, and the loop never closes one with elapsed <
\* target_duration.
ClosedOnExpiry ==
    /\ recording => current_time - recording_start_time < args.record_duration
    /\ \A i \in WriterIds :
          writers[i].state = "expired" =>
              writers[i].closed_at - writers[i].started_at >= args.record_duration

\* a session kept open over a frame and closed by expiry on a later one
ClosedOnExpiry_Witness ==
    \E i \in WriterIds :
        /\ writers[i].state = "expired"
        /\ args.record_duration > 0
        /\ frame_count >= writers[i].trigger_frame + 2

\* C9 (as claimed): a clip is the pre-event snapshot followed by the frames
\* processed after the triggering frame, each once and in arrival order: no
\* frame is written twice.
ClipFramesOnce ==
    \A i \in WriterIds :
        LET w == writers[i]
            N == PreEventCount(w)
        IN  /\ \A a, b \in 1..Len(w.frames) : a < b => w.frames[a].n < w.frames[b].n
            /\ \A k \in (N + 1)..Len(w.frames) : w.frames[k].n > w.trigger_frame

IsExpired(w) == w.state = "expired"

ExpiredSessions == SelectSeq(writers, IsExpired)

\* C10: with notifications enabled every session closed by expiry causes
\* exactly one dispatch, which gets that session's clip path and the labels
\* captured on its triggering frame; after the close the captured set is empty.
DispatchPerExpiry ==
    /\ args.email =>
          /\ Len(threads) = Len(ExpiredSessions)
          /\ \A k \in 1..Len(threads) :
                /\ threads[k].video_path = ExpiredSessions[k].path
                /\ threads[k].detected_objects = ExpiredSessions[k].labels
    /\ (video_writer # None /\ writers[video_writer].state = "expired")
          => alert_triggered_objects = {}

\* a dispatch whose labels differ from those of the frame that closed the
\* session
DispatchPerExpiry_Witness ==
    /\ args.email
    /\ args.record_duration > 0
    /\ Len(threads) = 1
    /\ threads[1].detected_objects = {"person"}
    /\ current_frame_alert_objects = {"car", "person"}
    /\ writers[video_writer].state = "expired"

\* one more iteration of the main loop, whatever the inputs
AnyFrame ==
    \E out \in DetectorOutputs, step \in ClockSteps, key \in Keys,
       opens \in BOOLEAN :
        ProcessFrame(out, current_time + step, key, opens)

RunningThreads == { i \in 1..Len(threads) : threads[i].state = "running" }

\* C11: while dispatches are in flight, also one that never completes, the
\* frame loop is never held up: its next iteration can always be taken.
LoopNeverWaits ==
    (pc = "loop" /\ frame_count < MaxFrames /\ RunningThreads # {})
        => ENABLED AnyFrame

\* a session opened and closed while an earlier dispatch is still in flight
LoopNeverWaits_Witness ==
    /\ Len(threads) >= 2
    /\ threads[1].state = "running"
    /\ Len(writers) >= 2
    /\ writers[2].state = "expired"

\* the variables of the frame loop
loopVars ==
    <<args, pc, frame_count, frame_buffer, last_alert_time, recording,
      video_writer, recording_start_time, current_video_path,
      alert_triggered_objects, current_frame_alert_objects, current_time,
      total_detections, log, log_file, log_rows_at_gate, writers, zones,
      boxes, indexes, roi_detections, csv_file>>

\* C12: a send makes one pass and no more: a thread changes once, from
\* running to sent or failed, nothing is retried, and the step leaves the
\* loop's state (recording, last_alert_time, triggering labels, ...) alone.
SendOnceAndDrop ==
    [][ (threads' # threads /\ Len(threads') = Len(threads))
          => /\ \E i \in 1..Len(threads) :
                   /\ threads[i].state = "running"
                   /\ threads[i].tries = 0
                   /\ threads'[i].state \in {"sent", "failed"}
                   /\ threads'[i].tries = 1
                   /\ \A j \in 1..Len(threads) : j # i => threads'[j] = threads[j]
             /\ UNCHANGED loopVars ]_vars

\* a failed send, and a later session recorded all the same
SendOnceAndDrop_Witness ==
    /\ Len(threads) >= 1
    /\ threads[1].state = "failed"
    /\ Len(writers) >= 2

\* C13 (as claimed): every row is in the partition named for the calendar
\* date of its own append: no row stamped on day D+1 sits in day D's file.
RowsInOwnPartition ==
    \A k \in 1..Len(log) : log_file = Date(log[k].timestamp)

ClosedAtExit ==
    pc = "done" =>
        /\ ~recording
        /\ \A i \in WriterIds : writers[i].state # "open"

\* an exit that had to force-close a session
ClosedAtExit_Witness ==
    /\ pc = "done"
    /\ \E i \in WriterIds : writers[i].state = "forced"

\* C16 (as claimed): when the output artifact cannot be created the session
\* ends INACTIVE: the recording flag is never true over a writer that failed
\* to open, and a failed writer is never taken through a session.
FailedArtifactInactive ==
    /\ recording => writers[video_writer].opened
    /\ \A i \in WriterIds : ~writers[i].opened => writers[i].state = "open"

\* the detections of the last frame that the loop body ran for
Kept == Surviving(boxes, indexes, 1)
CentreX(d) == d.box[1] + (d.box[3] \div 2)
CentreY(d) == d.box[2] + (d.box[4] \div 2)
\* the last of them, and the row it was logged as
LastKept == Kept[Len(Kept)]
LastRow == log[Len(log)]

Strictly(zone, cx, cy) ==
    /\ zone.coords[1] < cx /\ cx < zone.coords[1] + zone.coords[3]
    /\ zone.coords[2] < cy /\ cy < zone.coords[2] + zone.coords[4]

OnEdge(zone, cx, cy) ==
    \/ cx = zone.coords[1] \/ cx = zone.coords[1] + zone.coords[3]
    \/ cy = zone.coords[2] \/ cy = zone.coords[2] + zone.coords[4]

ZonesAround(d) ==
    { k \in 1..Len(zones) : Strictly(zones[k], CentreX(d), CentreY(d)) }

\* C17 (as claimed): a kept box of non-positive width or height is rejected:
\* its label gets no row, no count and no place in the frame's alert set
\* (the label of the degenerate probe is carried by no other box).
MalformedRejected ==
    \A i \in indexes :
        (boxes[i].box[3] <= 0 \/ boxes[i].box[4] <= 0) =>
            /\ boxes[i].label \notin current_frame_alert_objects
            /\ total_detections[boxes[i].label] = 0
            /\ roi_detections[boxes[i].label] = 0
            /\ \A k \in 1..Len(log) : log[k].label # boxes[i].label

\* C18 (as claimed): with a cooldown <= 0, or with zone monitoring on and no
\* zone configured, the loop is never entered: no frame, no row, no session.
InvalidConfigRefused ==
    (args.cooldown <= 0 \/ (args.roi /\ zones = <<>>)) =>
        frame_count = 0 /\ log = <<>> /\ writers = <<>>

\* C19: with zone monitoring on, a detection is logged as in a zone iff its
\* centre is strictly inside one, and a centre on an edge of a zone is never
\* given that zone.
BoundaryExclusive ==
    (args.roi /\ Kept # <<>>) =>
        /\ LastRow.in_roi = (ZonesAround(LastKept) # {})
        /\ \A k \in 1..Len(zones) :
               OnEdge(zones[k], CentreX(LastKept), CentreY(LastKept))
                   => LastRow.zone # zones[k].name

\* a centre on the left edge of Zone 1, between its top and bottom, was
\* logged as outside
BoundaryExclusive_Witness ==
    /\ args.roi /\ Kept # <<>> /\ zones = ROI_ZONES
    /\ CentreX(LastKept) = zones[1].coords[1]
    /\ zones[1].coords[2] < CentreY(LastKept)
    /\ CentreY(LastKept) < zones[1].coords[2] + zones[1].coords[4]
    /\ ~LastRow.in_roi

\* C20: a detection in several zones is given the first of them in the order
\* of the zone list and counted once per box; one in no zone is logged
\* as Outside and not counted in a zone.
FirstMatchWins ==
    (args.roi /\ Kept # <<>>) =>
        LET d == LastKept
            around == ZonesAround(d)
            inZoneBoxes == { i \in 1..Len(Kept) :
                               Kept[i].label = d.label /\ ZonesAround(Kept[i]) # {} }
        IN  /\ roi_detections[d.label] = Cardinality(inZoneBoxes)
            /\ IF around = {}
               THEN ~LastRow.in_roi /\ LastRow.zone = "Outside"
               ELSE /\ LastRow.in_roi
                    /\ \E k \in around :
                          /\ \A j \in around : k <= j
                          /\ LastRow.zone = zones[k].name

\* a centre inside both zones, under the list that has Zone 2 first
FirstMatchWins_Witness ==
    /\ args.roi /\ Kept # <<>> /\ Len(zones) = 2
    /\ zones[1].name = "Zone 2"
    /\ ZonesAround(LastKept) = {1, 2}
    /\ LastRow.zone = "Zone 2"
    /\ roi_detections[LastKept.label] = 1

\* C21: after any number of pushes the ring buffer holds exactly the most
\* recent min(N, pushes) frames, oldest first, and never more than N.
RingBufferRecent ==
    /\ Len(frame_buffer) = Min(BufferCapacity, frame_count)
    /\ Len(frame_buffer) <= BufferCapacity
    /\ \A k \in 1..Len(frame_buffer) :
           frame_buffer[k] = RawCopy(frame_count - Len(frame_buffer) + k)

\* a push at capacity has evicted the oldest frame
RingBufferRecent_Witness ==
    /\ frame_count > BufferCapacity
    /\ Len(frame_buffer) = BufferCapacity
    /\ frame_buffer[1] = RawCopy(frame_count - BufferCapacity + 1)

\* C22: every iteration pushes its frame into the ring buffer in the same
\* way, whether or not a session is active and whether or not the iteration
\* takes the snapshot that seeds a recording: the snapshot removes nothing.
SnapshotKeepsBuffer ==
    [][ FrameStep =>
          LET kept == IF Len(frame_buffer) < BufferCapacity
                      THEN frame_buffer ELSE Tail(frame_buffer)
          IN  frame_buffer' = Append(kept, RawCopy(frame_count')) ]_vars

\* a frame pushed during a session, next to the frame that triggered it
SnapshotKeepsBuffer_Witness ==
    \E i \in WriterIds :
        /\ writers[i].state = "open" /\ recording
        /\ writers[i].trigger_frame < frame_count
        /\ Len(frame_buffer) >= 2
        /\ frame_buffer[Len(frame_buffer)] = RawCopy(frame_count)
        /\ frame_buffer[Len(frame_buffer) - 1] = RawCopy(writers[i].trigger_frame)

\* the rows of the log file on disk, after its header
FileRows == csv_file.rows \o log

IsPrefix(s, t) == Len(s) <= Len(t) /\ \A k \in 1..Len(s) : s[k] = t[k]

\* C23: the log file is append-only: every step, the start over an existing
\* file included, keeps the rows already in the file in place, and the
\* header row is written once, only by the step that creates the file.
LogAppendOnly ==
    [][ /\ IsPrefix(FileRows, FileRows')
        /\ csv_file.exists => csv_file' = csv_file
        /\ csv_file'.exists => csv_file'.headers = 1 ]_vars

\* a run started over a file that held rows has appended its own
LogAppendOnly_Witness ==
    /\ pc = "loop"
    /\ Len(csv_file.rows) = 2
    /\ Len(log) >= 2
    /\ csv_file.headers = 1

\* C24 (as claimed): with notifications disabled a send is still made for
\* every session closed by expiry, and it checks that the clip's path exists
\* without attempting a delivery.
DisabledSendChecksPath ==
    ~args.email =>
        \A i \in WriterIds :
            writers[i].state = "expired" =>
                \E k \in 1..Len(threads) :
                    /\ threads[k].video_path = writers[i].path
                    /\ threads[k].state = "running" \/ threads[k].checked

\* a frame with an alert-eligible label in a zone that arrives while a
\* session is active or before the cooldown has elapsed
DroppedTriggerStep ==
    /\ FrameStep
    /\ args.roi
    /\ current_frame_alert_objects' # {}
    /\ recording \/ ~(current_time' - last_alert_time > args.cooldown)

\* C25: a dropped trigger changes nothing of the alert state: no artifact is
\* opened and last_alert_time, the clip path, the writer and the session's
\* start time stay as they were; the recording flag and the captured labels
\* stay as they were too, unless the active session expires on that very
\* frame, which clears both.
DroppedTriggerNoop ==
    [][ DroppedTriggerStep =>
          /\ Len(writers') = Len(writers)
          /\ last_alert_time' = last_alert_time
          /\ current_video_path' = current_video_path
          /\ video_writer' = video_writer
          /\ recording_start_time' = recording_start_time
          /\ \/ /\ recording' = recording
                /\ alert_triggered_objects' = alert_triggered_objects
             \/ /\ recording /\ ~recording'
                /\ writers[video_writer].state = "open"
                /\ writers'[video_writer].state = "expired"
                /\ alert_triggered_objects' = {} ]_vars

\* a trigger seen on the last frame with no session opened on it and none
\* left active: it was dropped
DroppedTriggerNoop_Witness ==
    /\ args.roi
    /\ current_frame_alert_objects # {}
    /\ ~recording
    /\ writers # <<>>
    /\ \A i \in WriterIds : writers[i].trigger_frame < frame_count
    /\ last_alert_time = writers[Len(writers)].started_at

\* C26: every session that becomes active ends: its writer is released and
\* the recording flag is down, by expiry on a later frame or by the close at
\* loop exit; at process exit no session is active.
SessionsEnd ==
    /\ \A i \in 1..MaxFrames :
          (i <= Len(writers) /\ writers[i].state = "open")
              ~> /\ i <= Len(writers)
                 /\ writers[i].state # "open"
                 /\ ~(recording /\ video_writer = i)
    /\ [](pc = "done" =>
             ~recording /\ \A i \in WriterIds : writers[i].state # "open")

\* a session that stayed active over several frames, until the exit closed it
SessionsEnd_Witness ==
    /\ pc = "done"
    /\ ~recording
    /\ Len(writers) = 1
    /\ writers[1].state = "forced"
    /\ writers[1].trigger_frame < frame_count
    /\ writers[1].closed_at > writers[1].started_at

\* C27: the recording flag is up exactly while the current writer exists and
\* has not been released: a writer is unreleased iff it is the current one and
\* the flag is up, so every write of the loop goes to an unreleased writer.
FlagMatchesWriter ==
    /\ recording => video_writer \in WriterIds
    /\ \A i \in WriterIds :
          (writers[i].state = "open") <=> (recording /\ video_writer = i)

\* a session under way whose writer has taken the frames of two iterations
\* after its pre-event frames
FlagMatchesWriter_Witness ==
    /\ recording
    /\ video_writer = 1
    /\ writers[1].opened
    /\ Len(writers[1].frames) > PreEventCount(writers[1]) + 1

\* C28: without --roi no trigger is accepted and no session is started,
\* whatever is detected, and every row is logged as outside any zone.
RoiOffInert ==
    ~args.roi =>
        /\ writers = <<>> /\ ~recording /\ threads = <<>>
        /\ last_alert_time = 0
        /\ current_frame_alert_objects = {}
        /\ \A k \in 1..Len(log) : ~log[k].in_roi /\ log[k].zone = "Outside"

\* without --roi, persons and cars standing inside Zone 1 were logged
RoiOffInert_Witness ==
    /\ ~args.roi
    /\ frame_count >= 2
    /\ \E k \in 1..Len(log) : log[k].label = "person"
    /\ \E k \in 1..Len(log) : log[k].label = "car"

\* C29: every row is written with alert_triggered false, the rows of a frame
\* whose trigger is accepted included, so the alert count a reader derives
\* from the log is 0.
NoRowFlagged ==
    /\ \A k \in 1..Len(log) : ~log[k].alert_triggered
    /\ alert_count(csv_file.rows \o log) = 0

\* two sessions were started and their triggering detections logged
NoRowFlagged_Witness ==
    /\ Len(writers) >= 2
    /\ Cardinality(EligibleRows) >= 2
    /\ alert_count(log) = 0

\* C30: a session closed at loop exit never causes a dispatch: the threads
\* started are as many as the sessions closed by expiry when notifications
\* are enabled and none otherwise, never more than the accepted triggers, and
\* none of them carries the clip of a force-closed session.
ForcedNeverDispatched ==
    /\ Len(threads) = IF args.email THEN Len(ExpiredSessions) ELSE 0
    /\ Len(threads) <= Len(writers)
    /\ \A i \in WriterIds :
          writers[i].state = "forced" =>
              \A k \in 1..Len(threads) : threads[k].video_path # writers[i].path

\* notifications enabled, a trigger accepted, the session closed by the exit:
\* one accepted trigger and no dispatch
ForcedNeverDispatched_Witness ==
    /\ args.email
    /\ pc = "done"
    /\ Len(writers) = 1
    /\ writers[1].state = "forced"
    /\ threads = <<>>

====
